---- MODULE Spec2Model ----
(***************************************************************************)
(* Window State Subsystem of screenshot-mcp-server.                        *)
(*                                                                         *)
(* The module models WindowEventMonitor (src/src/window/manager.ts, lines  *)
(* 375-519) on top of the two WindowManager operations it consumes         *)
(* (listAllWindows, getActiveWindow).  JavaScript runs one callback at a   *)
(* time, so every action below is one run-to-completion segment of a       *)
(* method: from its entry, or from the point where an awaited promise      *)
(* resolves, up to the next await or the return.                           *)
(***************************************************************************)
EXTENDS Integers, Sequences, FiniteSets, TLC

(***************************************************************************)
(* Bounds of the model.                                                    *)
(***************************************************************************)
\* longest list of windows the external tool reports in one enumeration
MaxWindows == 2
\* checkForWindowChanges executions that may be in flight at the same time
MaxTicks == 2
\* start() calls that may be awaiting their baseline enumeration
MaxStarts == 2
\* interval timers that may be active at the same time
MaxTimers == 2
\* listeners registered on the "window" event
MaxListeners == 2

\* default polling interval in ms
DefaultPollInterval == 1000

\* the interval setPollInterval is called with
PollIntervals == {500}

(***************************************************************************)
(* WindowInfo records.                                                     *)
(***************************************************************************)
mkBounds(x, y, w, h) == [x |-> x, y |-> y, width |-> w, height |-> h]

mkWindow(id, pid, b) ==
  [id |-> id, title |-> "t", appName |-> "app", pid |-> pid, bounds |-> b]

\* bounds a window is reported with: a base rectangle, a move by (50, 0),
\* a move along y, a change of width, a change of height, a move with a resize
BoundsSet ==
  { mkBounds(0, 0, 100, 100), mkBounds(50, 0, 100, 100),
    mkBounds(0, 50, 100, 100), mkBounds(0, 0, 200, 100),
    mkBounds(0, 0, 100, 200), mkBounds(50, 0, 200, 100) }

\* the windows the external tool may report: A with any of the bounds, and B
Windows ==
  { mkWindow("A", 1, b) : b \in BoundsSet }
    \cup { mkWindow("B", 2, mkBounds(0, 0, 100, 100)) }

\* one of them: A, which the tool reports or not, once or twice
OneWindow == { mkWindow("A", 1, mkBounds(0, 0, 100, 100)) }

RECURSIVE SeqsUpTo(_, _)
SeqsUpTo(S, n) ==
  IF n = 0 THEN { <<>> }
  ELSE LET shorter == SeqsUpTo(S, n - 1)
       IN  shorter \cup { Append(s, e) : s \in { t \in shorter : Len(t) = n - 1 }, e \in S }

\* what the external enumeration tool answers: an error, or a list of windows
ToolOutcomes(W) == [ok : {TRUE}, windows : SeqsUpTo(W, MaxWindows)]
                     \cup { [ok |-> FALSE, windows |-> <<>>] }

\* what the external focused-window tool answers: an error, or at most one window
FocusOutcomes(W) == [ok : {TRUE}, windows : SeqsUpTo(W, 1)]
                      \cup { [ok |-> FALSE, windows |-> <<>>] }

(***************************************************************************)
(* WindowManager, as seen by the monitor.                                  *)
(***************************************************************************)
\* listAllWindows: a failure of the tool is caught and becomes the empty list
listAllWindows(out) == IF out.ok THEN out.windows ELSE <<>>

\* getActiveWindow: the first parsed window, or null (<<>>), also on failure
getActiveWindow(out) ==
  IF out.ok /\ Len(out.windows) > 0 THEN << out.windows[1] >> ELSE <<>>

(***************************************************************************)
(* Map<string, WindowInfo>: keys keep their insertion order; the key of a  *)
(* record is always its id.                                                *)
(***************************************************************************)
MapHas(m, id) == \E i \in DOMAIN m : m[i].id = id

MapGet(m, id) == m[CHOOSE i \in DOMAIN m : m[i].id = id]

MapSet(m, w) ==
  IF MapHas(m, w.id)
    THEN [i \in DOMAIN m |-> IF m[i].id = w.id THEN w ELSE m[i]]
    ELSE Append(m, w)

\* a start() that does not record the windows it enumerated
MapSetAll_Nothing(m, ws) == m

RECURSIVE MapSetAll(_, _)
MapSetAll(m, ws) ==
  IF ws = <<>> THEN m ELSE MapSetAll(MapSet(m, Head(ws)), Tail(ws))

(***************************************************************************)
(* EventEmitter.emit("window", event): the listeners are called in the     *)
(* order of their registration, synchronously; an exception thrown by a    *)
(* listener leaves emit and the listeners after it are not called.  An     *)
(* emitted event is recorded with the number of listeners that were called *)
(* (the timestamp of the event is left out).                               *)
(***************************************************************************)
ListenerKinds == {"ok", "throws"}

FirstThrower(ls) ==
  IF \E i \in DOMAIN ls : ls[i] = "throws"
    THEN CHOOSE i \in DOMAIN ls :
           ls[i] = "throws" /\ \A j \in DOMAIN ls : ls[j] = "throws" => i <= j
    ELSE 0

emit(ls, ev) ==
  LET t == FirstThrower(ls)
  IN  [event |-> [type |-> ev.type, window |-> ev.window,
                  receivers |-> IF t = 0 THEN Len(ls) ELSE t],
       threw |-> t # 0]

\* the emit calls of one synchronous run, in order, up to the first that throws
RECURSIVE EmitAll(_, _)
EmitAll(evs, ls) ==
  IF evs = <<>> THEN [emitted |-> <<>>, threw |-> FALSE]
  ELSE LET r == emit(ls, Head(evs))
       IN  IF r.threw THEN [emitted |-> << r.event >>, threw |-> TRUE]
           ELSE LET rest == EmitAll(Tail(evs), ls)
                IN  [emitted |-> << r.event >> \o rest.emitted, threw |-> rest.threw]

(***************************************************************************)
(* The comparison of checkForWindowChanges (lines 451-501): the events it  *)
(* passes to emit, in order, for the retained state prev and the current   *)
(* list of windows.                                                        *)
(***************************************************************************)
\* a comparison that overlooks y
Moved_OnlyX(w, p) == w.bounds.x # p.bounds.x

Moved(w, p) == w.bounds.x # p.bounds.x \/ w.bounds.y # p.bounds.y

Resized(w, p) == w.bounds.width # p.bounds.width \/ w.bounds.height # p.bounds.height

\* a comparison that reports every current window as new
WindowEvents_AlwaysCreated(prev, w) == << [type |-> "created", window |-> w] >>

WindowEvents(prev, w) ==
  IF MapHas(prev, w.id)
    THEN LET p == MapGet(prev, w.id)
         IN  (IF Moved(w, p) THEN << [type |-> "moved", window |-> w] >> ELSE <<>>)
               \o (IF Resized(w, p) THEN << [type |-> "resized", window |-> w] >> ELSE <<>>)
    ELSE << [type |-> "created", window |-> w] >>

RECURSIVE CurrentEvents(_, _)
CurrentEvents(prev, ws) ==
  IF ws = <<>> THEN <<>>
  ELSE WindowEvents(prev, Head(ws)) \o CurrentEvents(prev, Tail(ws))

\* a comparison that never marks a window as seen
SeenWindowIds_None(prev, ws) == {}

\* seenWindowIds: the ids of the current windows that were in the retained state
SeenWindowIds(prev, ws) == { ws[i].id : i \in { j \in DOMAIN ws : MapHas(prev, ws[j].id) } }

RECURSIVE ClosedEvents(_, _)
ClosedEvents(prev, seen) ==
  IF prev = <<>> THEN <<>>
  ELSE (IF Head(prev).id \notin seen
          THEN << [type |-> "closed", window |-> Head(prev)] >> ELSE <<>>)
         \o ClosedEvents(Tail(prev), seen)

ChangeEvents(prev, ws) ==
  CurrentEvents(prev, ws) \o ClosedEvents(prev, SeenWindowIds(prev, ws))

\* a tick that reports no focus
FocusEvents_Nothing(activeWindow) == <<>>

\* lines 505-511: a focused event when getActiveWindow() returned a window
FocusEvents(activeWindow) ==
  IF activeWindow # <<>>
    THEN << [type |-> "focused", window |-> activeWindow[1]] >>
    ELSE <<>>

(***************************************************************************)
(* State of a WindowEventMonitor.                                          *)
(***************************************************************************)
VARIABLES
  isRunning,        \* the field isRunning
  pollInterval,     \* the field pollInterval
  lastWindowState,  \* the field lastWindowState, a Map in insertion order
  intervalId,       \* the field intervalId: a timer handle, 0 for undefined
  timers,           \* the interval timers that are active: [id, ms]
  listeners,        \* the listeners of the "window" event, in registration order
  starts,           \* start() calls that await their listAllWindows()
  ticks,            \* checkForWindowChanges executions in flight, oldest first:
                    \* where each stands, its currentWindowMap, and whether the
                    \* external tool failed on its enumeration
  emitted,          \* the events passed to emit by the last step
  lastOp,           \* the last step: its operation, its input and how it ended
  afterStop         \* "no", or since the last stop() without a later start():
                    \* "draining" while executions that were in flight at the
                    \* stop() may remain, "quiet" once none was in flight

\* A call of a WindowManager operation, taken by itself:
VARIABLES
  args,             \* the arguments of the call and what the external tool
                    \* answers to it; <<>> when no call is considered
  returned          \* <<>> while the call is pending, then how it ended

progVars ==
  << isRunning, pollInterval, lastWindowState, intervalId, timers, listeners,
     starts, ticks >>

vars == << progVars, emitted, lastOp, afterStop, args, returned >>

\* the record of a step: the operation, the windows its query returned, whether
\* the external tool failed, whether a listener threw, whether the operation
\* returned at its first line
Op(name, ws, failed, threw, early) ==
  [op |-> name, windows |-> ws, failed |-> failed, threw |-> threw, early |-> early]

RemoveAt(s, i) == [j \in 1..(Len(s) - 1) |-> IF j < i THEN s[j] ELSE s[j + 1]]

\* setInterval: a handle different from every handle that is still referenced
NewTimer(used) == CHOOSE n \in 1..(Cardinality(used) + 1) :
                    n \notin used /\ \A k \in 1..(n - 1) : k \in used

\* a clearInterval that clears nothing
ClearInterval_Nothing(ts, id) == ts

\* clearInterval(id): a handle that is not active is ignored
ClearInterval(ts, id) == { t \in ts : t.id # id }

\* after a stop(): quiet once no execution of checkForWindowChanges is in flight
Drained(quiet, ts) == IF quiet \/ ts = <<>> THEN "quiet" ELSE "draining"

Init ==
  /\ isRunning = FALSE
  /\ pollInterval = DefaultPollInterval
  /\ lastWindowState = <<>>
  /\ intervalId = 0
  /\ timers = {}
  /\ listeners = <<>>
  /\ starts = 0
  /\ ticks = <<>>
  /\ emitted = <<>>
  /\ lastOp = Op("init", <<>>, FALSE, FALSE, FALSE)
  /\ afterStop = "no"
  /\ args = <<>>
  /\ returned = <<>>

(***************************************************************************)
(* start(), up to its await (lines 391-397).                               *)
(***************************************************************************)
\* line 392: if (this.isRunning) return;
StartReturnsEarly == isRunning

StartCall ==
  /\ IF StartReturnsEarly
       THEN UNCHANGED << isRunning, starts >>
       ELSE /\ starts < MaxStarts
            /\ isRunning' = TRUE
            /\ starts' = starts + 1
  /\ emitted' = <<>>
  /\ lastOp' = Op("start", <<>>, FALSE, FALSE, StartReturnsEarly)
  /\ afterStop' = "no"
  /\ UNCHANGED << args, returned, pollInterval, lastWindowState, intervalId, timers, listeners, ticks >>

(***************************************************************************)
(* start(), from the resolution of listAllWindows() (lines 397-408).       *)
(***************************************************************************)
StartResume(out) ==
  /\ starts > 0
  /\ Cardinality(timers) < MaxTimers
  /\ LET windows == listAllWindows(out)
         id == NewTimer({ t.id : t \in timers } \cup {intervalId})
     IN  /\ lastWindowState' = MapSetAll(lastWindowState, windows)
         /\ intervalId' = id
         /\ timers' = timers \cup { [id |-> id, ms |-> pollInterval] }
         /\ lastOp' = Op("startResume", windows, ~out.ok, FALSE, FALSE)
  /\ starts' = starts - 1
  /\ emitted' = <<>>
  /\ UNCHANGED << args, returned, isRunning, pollInterval, listeners, ticks, afterStop >>

(***************************************************************************)
(* stop() (lines 413-422).                                                 *)
(***************************************************************************)
\* a stop() without its guard
StopReturnsEarly_Never == FALSE

\* line 414: if (!this.isRunning) return;
StopReturnsEarly == ~isRunning

Stop ==
  /\ IF StopReturnsEarly
       THEN UNCHANGED << isRunning, timers >>
       ELSE /\ timers' = IF intervalId # 0 THEN ClearInterval(timers, intervalId) ELSE timers
            /\ isRunning' = FALSE
  /\ emitted' = <<>>
  /\ lastOp' = Op("stop", <<>>, FALSE, FALSE, StopReturnsEarly)
  /\ afterStop' = Drained(afterStop = "quiet", ticks)
  /\ UNCHANGED << args, returned, pollInterval, lastWindowState, intervalId, listeners, starts, ticks >>

(***************************************************************************)
(* setPollInterval(ms) (lines 427-436).                                    *)
(***************************************************************************)
SetPollInterval(ms) ==
  /\ pollInterval' = ms
  /\ IF isRunning /\ intervalId # 0
       THEN LET cleared == ClearInterval(timers, intervalId)
                id == NewTimer({ t.id : t \in cleared })
            IN  /\ Cardinality(cleared) < MaxTimers
                /\ timers' = cleared \cup { [id |-> id, ms |-> ms] }
                /\ intervalId' = id
       ELSE UNCHANGED << timers, intervalId >>
  /\ emitted' = <<>>
  /\ lastOp' = Op("setPollInterval", <<>>, FALSE, FALSE, FALSE)
  /\ UNCHANGED << args, returned, isRunning, lastWindowState, listeners, starts, ticks, afterStop >>

(***************************************************************************)
(* on("window", listener) and off("window", listener), as the socket       *)
(* handlers call them (src/src/mcp/handlers.ts, lines 45-56).              *)
(***************************************************************************)
Subscribe(kind) ==
  /\ Len(listeners) < MaxListeners
  /\ listeners' = Append(listeners, kind)
  /\ emitted' = <<>>
  /\ lastOp' = Op("subscribe", <<>>, FALSE, FALSE, FALSE)
  /\ UNCHANGED << args, returned, isRunning, pollInterval, lastWindowState, intervalId, timers,
                  starts, ticks, afterStop >>

Unsubscribe(i) ==
  /\ i \in DOMAIN listeners
  /\ listeners' = RemoveAt(listeners, i)
  /\ emitted' = <<>>
  /\ lastOp' = Op("unsubscribe", <<>>, FALSE, FALSE, FALSE)
  /\ UNCHANGED << args, returned, isRunning, pollInterval, lastWindowState, intervalId, timers,
                  starts, ticks, afterStop >>

(***************************************************************************)
(* An interval timer fires: the callback calls checkForWindowChanges,      *)
(* which runs up to the await of listAllWindows() (lines 403-405, 441-444).*)
(* The timer does not wait for the promise of its callback.                *)
(***************************************************************************)
TimerFires(t) ==
  /\ t \in timers
  /\ Len(ticks) < MaxTicks
  /\ ticks' = Append(ticks, [phase |-> "list", currentWindowMap |-> <<>>,
                                failed |-> FALSE])
  /\ emitted' = <<>>
  /\ lastOp' = Op("timer", <<>>, FALSE, FALSE, FALSE)
  /\ UNCHANGED << args, returned, isRunning, pollInterval, lastWindowState, intervalId, timers,
                  listeners, starts, afterStop >>

(***************************************************************************)
(* checkForWindowChanges, from the resolution of listAllWindows() to the   *)
(* await of getActiveWindow() (lines 444-504), or to the catch block when  *)
(* a listener throws (lines 515-517).                                      *)
(***************************************************************************)
TickDiff(i, out) ==
  /\ i \in DOMAIN ticks
  /\ ticks[i].phase = "list"
  /\ LET currentWindows == listAllWindows(out)
         r == EmitAll(ChangeEvents(lastWindowState, currentWindows), listeners)
     IN  /\ emitted' = r.emitted
         /\ ticks' = IF r.threw
                       THEN RemoveAt(ticks, i)
                       ELSE [ticks EXCEPT ![i] =
                               [phase |-> "focus",
                                currentWindowMap |-> MapSetAll(<<>>, currentWindows),
                                failed |-> ~out.ok]]
         /\ lastOp' = Op("diff", currentWindows, ~out.ok, r.threw, FALSE)
  /\ afterStop' = IF afterStop = "no" THEN "no" ELSE Drained(afterStop = "quiet", ticks')
  /\ UNCHANGED << args, returned, isRunning, pollInterval, lastWindowState, intervalId, timers,
                  listeners, starts >>

(***************************************************************************)
(* checkForWindowChanges, from the resolution of getActiveWindow() to the  *)
(* end (lines 504-518).                                                    *)
(***************************************************************************)
TickFocus(i, out) ==
  /\ i \in DOMAIN ticks
  /\ ticks[i].phase = "focus"
  /\ LET activeWindow == getActiveWindow(out)
         r == EmitAll(FocusEvents(activeWindow), listeners)
     IN  /\ emitted' = r.emitted
         /\ lastWindowState' = IF r.threw THEN lastWindowState
                               ELSE ticks[i].currentWindowMap
         /\ lastOp' = Op("focus", activeWindow, ~out.ok, r.threw, FALSE)
  /\ ticks' = RemoveAt(ticks, i)
  /\ afterStop' = IF afterStop = "no" THEN "no" ELSE Drained(afterStop = "quiet", ticks')
  /\ UNCHANGED << args, returned, isRunning, pollInterval, intervalId, timers, listeners, starts >>

\* the lifecycle of a monitor: start(), stop() and setPollInterval() called at
\* any time, timers firing at any time, the two queries resolving in any order
Next ==
  \/ StartCall
  \/ \E out \in ToolOutcomes(OneWindow) : StartResume(out)
  \/ Stop
  \/ \E ms \in PollIntervals : SetPollInterval(ms)
  \/ \E t \in timers : TimerFires(t)
  \/ \E i \in 1..MaxTicks, out \in ToolOutcomes(OneWindow) : TickDiff(i, out)
  \/ \E i \in 1..MaxTicks, out \in FocusOutcomes(OneWindow) : TickFocus(i, out)

Spec == Init /\ [][Next]_vars

\* a monitor that is started and left running, with listeners that come and
\* go, over all the windows; the timer fires when no execution is in flight
NextDiff ==
  \/ StartCall
  \/ \E out \in ToolOutcomes(Windows) : StartResume(out)
  \/ \E kind \in ListenerKinds : Subscribe(kind)
  \/ \E i \in 1..MaxListeners : Unsubscribe(i)
  \/ \E t \in timers : ticks = <<>> /\ TimerFires(t)
  \/ \E i \in 1..MaxTicks, out \in ToolOutcomes(Windows) : TickDiff(i, out)
  \/ \E i \in 1..MaxTicks, out \in FocusOutcomes(Windows) : TickFocus(i, out)

SpecDiff == Init /\ [][NextDiff]_vars

(***************************************************************************)
(* WindowManager: the matcher and the other queries (manager.ts, lines     *)
(* 34-154; the version built on the get-windows package, src/unnamed/      *)
(* part_004, lines 35-169, carries the suffix GW).  A string that is       *)
(* searched is a sequence of characters; an optional field of a            *)
(* WindowIdentifier is <<>> when absent and << v >> when present; null is  *)
(* <<>> and a window that is returned is << w >>.                          *)
(***************************************************************************)
\* longest list of candidates the external tool reports to a query
MaxCandidates == 2

\* the contributions to the score (lines 120, 123, 127, 132, 139, 145)
IdWeight == 100
PidWeight == 50
AppNameWeight == 25
TitleWeight == 20
PositionWeight == 10
SizeWeight == 10
\* the bound of the proximity tests (lines 137-138, 143-144)
Tolerance == 10

\* String.prototype.toLowerCase over the letters A, B, a, b
Lower(c) == CASE c = "A" -> "a" [] c = "B" -> "b" [] OTHER -> c

toLowerCase(s) == [i \in DOMAIN s |-> Lower(s[i])]

\* String.prototype.includes
includes(s, sub) ==
  \E k \in 0..(Len(s) - Len(sub)) : SubSeq(s, k + 1, k + Len(sub)) = sub

\* Math.abs
abs(n) == IF n < 0 THEN -n ELSE n

mkWindowInfo(id, title, appName, pid, b) ==
  [id |-> id, title |-> title, appName |-> appName, pid |-> pid, bounds |-> b]

\* the candidates: two windows of process 5611 with appName "Ab", a window of
\* process 0, and two more; seen from (10, 10) and 100 x 100 their bounds
\* differ by 0, by 9, by exactly 10 (below and above) and by 11
MatchWindows ==
  { mkWindowInfo("5611-0", <<"B">>, <<"A", "b">>, 5611, mkBounds(10, 10, 100, 100)),
    mkWindowInfo("5611-1", <<"a", "B">>, <<"A", "b">>, 5611, mkBounds(1, 19, 91, 109)),
    mkWindowInfo("0-0", <<"B">>, <<"B">>, 0, mkBounds(0, 10, 110, 100)),
    mkWindowInfo("7-0", <<"b">>, <<"B", "a">>, 7, mkBounds(20, 20, 90, 90)),
    mkWindowInfo("7-1", <<"A">>, <<"B", "a">>, 7, mkBounds(10, 21, 100, 89)) }

\* the identifiers a consumer asks for: every field is optional
Identifiers ==
  [ id       : { <<>>, << "5611-0" >> },
    pid      : { <<>>, << 0 >>, << 5611 >> },
    appName  : { <<>>, << <<"a">> >>, << <<"a", "B">> >> },
    title    : { <<>>, << <<"b">> >> },
    position : { <<>>, << [x |-> 10, y |-> 10] >> },
    size     : { <<>>, << [width |-> 100, height |-> 100] >> } ]

\* truthiness of an optional string (undefined and "" are falsy), given the
\* empty string of its representation
TruthyString(f, empty) == f # <<>> /\ f[1] # empty

\* truthiness of an optional number (undefined and 0 are falsy)
TruthyNumber(f) == f # <<>> /\ f[1] # 0

\* line 120
IdScore(identifier, window) ==
  IF TruthyString(identifier.id, "") /\ window.id = identifier.id[1]
    THEN IdWeight ELSE 0

\* line 123
PidScore(identifier, window) ==
  IF TruthyNumber(identifier.pid) /\ window.pid = identifier.pid[1]
    THEN PidWeight ELSE 0

\* lines 126-128
AppNameScore(identifier, window) ==
  IF /\ TruthyString(identifier.appName, <<>>)
     /\ includes(toLowerCase(window.appName), toLowerCase(identifier.appName[1]))
    THEN AppNameWeight ELSE 0

\* lines 131-133
TitleScore(identifier, window) ==
  IF /\ TruthyString(identifier.title, <<>>)
     /\ includes(toLowerCase(window.title), toLowerCase(identifier.title[1]))
    THEN TitleWeight ELSE 0

\* lines 136-140
PositionScore(identifier, window) ==
  IF /\ identifier.position # <<>>
     /\ abs(window.bounds.x - identifier.position[1].x) < Tolerance
     /\ abs(window.bounds.y - identifier.position[1].y) < Tolerance
    THEN PositionWeight ELSE 0

\* lines 142-146
SizeScore(identifier, window) ==
  IF /\ identifier.size # <<>>
     /\ abs(window.bounds.width - identifier.size[1].width) < Tolerance
     /\ abs(window.bounds.height - identifier.size[1].height) < Tolerance
    THEN SizeWeight ELSE 0

\* lines 117-148: the score of one candidate
Score(identifier, window) ==
  IdScore(identifier, window) + PidScore(identifier, window)
    + AppNameScore(identifier, window) + TitleScore(identifier, window)
    + PositionScore(identifier, window) + SizeScore(identifier, window)

\* lines 116-149: .map(window => ({ window, score }))
Scored(identifier, windows) ==
  [i \in DOMAIN windows |->
     [window |-> windows[i], score |-> Score(identifier, windows[i])]]

\* a sort that puts an element before the elements that compare equal to it
RECURSIVE InsertByScore_Unstable(_, _)
InsertByScore_Unstable(sorted, r) ==
  IF sorted = <<>> THEN << r >>
  ELSE IF Head(sorted).score > r.score
         THEN << Head(sorted) >> \o InsertByScore_Unstable(Tail(sorted), r)
         ELSE << r >> \o sorted

\* Array.prototype.sort((a, b) => b.score - a.score) is stable: an element
\* goes behind every element the comparator does not order after it
RECURSIVE InsertByScore(_, _)
InsertByScore(sorted, r) ==
  IF sorted = <<>> THEN << r >>
  ELSE IF Head(sorted).score >= r.score
         THEN << Head(sorted) >> \o InsertByScore(Tail(sorted), r)
         ELSE << r >> \o sorted

RECURSIVE SortByScore(_)
SortByScore(rs) ==
  IF rs = <<>> THEN <<>>
  ELSE InsertByScore(SortByScore(SubSeq(rs, 1, Len(rs) - 1)), rs[Len(rs)])

\* a selection that also accepts a best candidate of score zero
BestMatch_AcceptsZero(identifier, windows) ==
  LET sorted == SortByScore(Scored(identifier, windows))
  IN  IF sorted = <<>> THEN <<>> ELSE << sorted[1].window >>

\* lines 150-153: .filter(score > 0).sort(...).map(window).shift() || null
BestMatch(identifier, windows) ==
  LET positive == SelectSeq(Scored(identifier, windows), LAMBDA r : r.score > 0)
      sorted   == SortByScore(positive)
  IN  IF sorted = <<>> THEN <<>> ELSE << sorted[1].window >>

\* part_004, lines 158-164: sort, then the first one if it scores more than 0
BestMatchGW(identifier, windows) ==
  LET sorted == SortByScore(Scored(identifier, windows))
  IN  IF Len(sorted) > 0 /\ sorted[1].score > 0
        THEN << sorted[1].window >> ELSE <<>>

(***************************************************************************)
(* How an awaited call ends: with a value, or with an exception.           *)
(***************************************************************************)
Resolved(v) == [threw |-> FALSE, value |-> v]

Rejected == [threw |-> TRUE, value |-> <<>>]

\* the rest of an async function makes v of r.value; an exception passes through
Then(r, v) == IF r.threw THEN r ELSE Resolved(v)

\* a try block whose exception is not caught
TryCatch_Rethrows(r, fallback) == r

\* try { return r } catch (error) { return fallback }
TryCatch(r, fallback) == IF r.threw THEN Resolved(fallback) ELSE r

\* lines 159-167: the output of osascript, here already as the list that
\* parseWindowList makes of it; an error of the tool is logged and thrown again
runAppleScript(out) == IF out.ok THEN Resolved(out.windows) ELSE Rejected

\* lines 34-62
listAllWindowsTry(out) == TryCatch(runAppleScript(out), <<>>)

FirstOrNull(ws) == IF Len(ws) > 0 THEN << ws[1] >> ELSE <<>>

\* lines 67-88
getActiveWindowTry(out) ==
  LET r == runAppleScript(out)
  IN  TryCatch(Then(r, FirstOrNull(r.value)), <<>>)

\* lines 93-98
getWindowsByApplication(out, appName) ==
  LET r == listAllWindowsTry(out)
  IN  Then(r, SelectSeq(r.value, LAMBDA w :
                includes(toLowerCase(w.appName), toLowerCase(appName))))

\* lines 103-106
getWindowById(out, id) ==
  LET r == listAllWindowsTry(out)
  IN  Then(r, FirstOrNull(SelectSeq(r.value, LAMBDA w : w.id = id)))

\* lines 111-154
findMatchingWindow(out, identifier) ==
  LET r == listAllWindowsTry(out)
  IN  Then(r, BestMatch(identifier, r.value))

\* part_004: import('get-windows') and openWindows() or activeWindow(), which
\* reject when the package or the system call fails
openWindows(out) == IF out.ok THEN Resolved(out.windows) ELSE Rejected

\* part_004, lines 35-48
listAllWindowsGW(out) == TryCatch(openWindows(out), <<>>)

\* part_004, lines 53-66
activeWindow(out) ==
  IF out.ok THEN Resolved(FirstOrNull(out.windows)) ELSE Rejected

getActiveWindowGW(out) == TryCatch(activeWindow(out), <<>>)

\* part_004, lines 71-89
getWindowsByApplicationGW(out, appName) ==
  LET r == openWindows(out)
  IN  TryCatch(Then(r, SelectSeq(r.value, LAMBDA w :
                         includes(toLowerCase(w.appName), toLowerCase(appName)))),
               <<>>)

\* part_004, lines 94-109
getWindowByIdGW(out, id) ==
  LET r == openWindows(out)
  IN  TryCatch(Then(r, FirstOrNull(SelectSeq(r.value, LAMBDA w : w.id = id))), <<>>)

\* part_004, lines 114-169
findMatchingWindowGW(out, identifier) ==
  LET r == openWindows(out)
  IN  TryCatch(Then(r, BestMatchGW(identifier, r.value)), <<>>)

(***************************************************************************)
(* One call of a query.  The arguments are an identifier, whose id and     *)
(* appName serve getWindowById and getWindowsByApplication, and the answer *)
(* of the external tool to the enumeration the call makes.                 *)
(***************************************************************************)
QueryArgs ==
  [ identifier : Identifiers,
    out : [ok : {TRUE}, windows : SeqsUpTo(MatchWindows, MaxCandidates)]
            \cup { [ok |-> FALSE, windows |-> <<>>] } ]

\* what is kept of a call: the operation, how it ended, and for the matcher the
\* score of every candidate
Returned(name, r, scores) ==
  [op |-> name, threw |-> r.threw, value |-> r.value, scores |-> scores]

InitQuery ==
  /\ isRunning = FALSE
  /\ pollInterval = DefaultPollInterval
  /\ lastWindowState = <<>>
  /\ intervalId = 0
  /\ timers = {}
  /\ listeners = <<>>
  /\ starts = 0
  /\ ticks = <<>>
  /\ emitted = <<>>
  /\ lastOp = Op("init", <<>>, FALSE, FALSE, FALSE)
  /\ afterStop = "no"
  /\ args \in QueryArgs
  /\ returned = <<>>

\* the call returns r
Return(name, r, scores) ==
  /\ returned = <<>>
  /\ returned' = Returned(name, r, scores)
  /\ UNCHANGED << progVars, emitted, lastOp, afterStop, args >>

Scores(identifier, out) ==
  [i \in DOMAIN out.windows |-> Score(identifier, out.windows[i])]

ListAllWindows == Return("listAllWindows", listAllWindowsTry(args.out), <<>>)

GetActiveWindow == Return("getActiveWindow", getActiveWindowTry(args.out), <<>>)

GetWindowsByApplication ==
  /\ args.identifier.appName # <<>>
  /\ Return("getWindowsByApplication",
            getWindowsByApplication(args.out, args.identifier.appName[1]), <<>>)

GetWindowById ==
  /\ args.identifier.id # <<>>
  /\ Return("getWindowById", getWindowById(args.out, args.identifier.id[1]), <<>>)

FindMatchingWindow ==
  Return("findMatchingWindow", findMatchingWindow(args.out, args.identifier),
         Scores(args.identifier, args.out))

ListAllWindowsGW == Return("listAllWindowsGW", listAllWindowsGW(args.out), <<>>)

GetActiveWindowGW == Return("getActiveWindowGW", getActiveWindowGW(args.out), <<>>)

GetWindowsByApplicationGW ==
  /\ args.identifier.appName # <<>>
  /\ Return("getWindowsByApplicationGW",
            getWindowsByApplicationGW(args.out, args.identifier.appName[1]), <<>>)

GetWindowByIdGW ==
  /\ args.identifier.id # <<>>
  /\ Return("getWindowByIdGW", getWindowByIdGW(args.out, args.identifier.id[1]), <<>>)

FindMatchingWindowGW ==
  Return("findMatchingWindowGW", findMatchingWindowGW(args.out, args.identifier),
         Scores(args.identifier, args.out))

NextQuery ==
  \/ ListAllWindows
  \/ GetActiveWindow
  \/ GetWindowsByApplication
  \/ GetWindowById
  \/ FindMatchingWindow
  \/ ListAllWindowsGW
  \/ GetActiveWindowGW
  \/ GetWindowsByApplicationGW
  \/ GetWindowByIdGW
  \/ FindMatchingWindowGW

SpecQuery == InitQuery /\ [][NextQuery]_vars

(***************************************************************************)
(* Text.  The output of the external tool is a sequence of symbols: the    *)
(* characters  { } , : " \  the space, the newline, the digits, two        *)
(* letters, and the five key words procName, procID, name, position and    *)
(* size, each of which stands for its run of letters.  The operators below *)
(* are the String methods and the regular expressions that parseWindowList *)
(* applies (manager.ts, lines 172-357; part_004, lines 175-315).           *)
(***************************************************************************)
Digits == <<"0", "1", "2", "3", "4", "5", "6", "7", "8", "9">>

IsDigit(c) == \E d \in DOMAIN Digits : Digits[d] = c

DigitValue(c) == (CHOOSE d \in DOMAIN Digits : Digits[d] = c) - 1

\* \s
IsSpace(c) == c \in {" ", "\n"}

\* what parseInt returns when the text does not start with a number; a field
\* that is undefined is written the same way
NaN == 0 - 1

\* String.prototype.startsWith
startsWith(s, p) == Len(p) <= Len(s) /\ SubSeq(s, 1, Len(p)) = p

\* the suffix of s from position i on
From(s, i) == SubSeq(s, i, Len(s))

\* String.prototype.indexOf, counted from 1; 0 when p does not occur
indexOf(s, p) ==
  IF includes(s, p)
    THEN CHOOSE k \in 1..(Len(s) + 1) :
           /\ startsWith(From(s, k), p)
           /\ \A j \in 1..(k - 1) : ~startsWith(From(s, j), p)
    ELSE 0

\* String.prototype.replace(p, r) with a string p: the first occurrence only
replace(s, p, r) ==
  LET k == indexOf(s, p)
  IN  IF k = 0 THEN s
      ELSE SubSeq(s, 1, k - 1) \o r \o From(s, k + Len(p))

RECURSIVE trimStart(_)
trimStart(s) == IF s # <<>> /\ IsSpace(Head(s)) THEN trimStart(Tail(s)) ELSE s

RECURSIVE trimEnd(_)
trimEnd(s) ==
  IF s # <<>> /\ IsSpace(s[Len(s)]) THEN trimEnd(SubSeq(s, 1, Len(s) - 1)) ELSE s

\* String.prototype.trim
trim(s) == trimEnd(trimStart(s))

\* String.prototype.split(sep) with a string sep that is not empty
RECURSIVE split(_, _)
split(s, sep) ==
  LET k == indexOf(s, sep)
  IN  IF k = 0 THEN << s >>
      ELSE << SubSeq(s, 1, k - 1) >> \o split(From(s, k + Len(sep)), sep)

\* Array.prototype.join(sep)
RECURSIVE join(_, _)
join(parts, sep) ==
  IF parts = <<>> THEN <<>>
  ELSE IF Len(parts) = 1 THEN parts[1]
  ELSE parts[1] \o sep \o join(Tail(parts), sep)

\* the longest run of digits s begins with
RECURSIVE DigitRun(_)
DigitRun(s) ==
  IF s # <<>> /\ IsDigit(Head(s)) THEN << Head(s) >> \o DigitRun(Tail(s)) ELSE <<>>

RECURSIVE DigitsValue(_, _)
DigitsValue(ds, acc) ==
  IF ds = <<>> THEN acc ELSE DigitsValue(Tail(ds), 10 * acc + DigitValue(Head(ds)))

\* parseInt(s, 10) for a text without a sign: leading white space is skipped,
\* then the digits up to the first other symbol count
parseInt(s) ==
  LET ds == DigitRun(trimStart(s))
  IN  IF ds = <<>> THEN NaN ELSE DigitsValue(ds, 0)

\* Number.prototype.toString of a natural number, as in `${n}`
RECURSIVE NumberToString(_)
NumberToString(n) ==
  IF n < 10 THEN << Digits[n + 1] >>
  ELSE NumberToString(n \div 10) \o << Digits[(n % 10) + 1] >>

\* the first of the positions ks at which a regular expression matches, 0 if
\* there is none: where a regular expression without the sticky flag finds
\* its match
FirstMatch(ks) ==
  IF ks = {} THEN 0 ELSE CHOOSE k \in ks : \A j \in ks : k <= j

\* "([^"]+)" at the head of t: what the group captures, in a tuple, or <<>>
QuotedAtHead(t) ==
  IF t # <<>> /\ Head(t) = "\""
    THEN LET rest == Tail(t)
             q    == indexOf(rest, << "\"" >>)
         IN  IF q >= 2 THEN << SubSeq(rest, 1, q - 1) >> ELSE <<>>
    ELSE <<>>

\* /key:"([^"]+)"/ : the captured text in a tuple, or <<>> for no match
MatchQuoted(s, key) ==
  LET lit == << key, ":" >>
      k == FirstMatch({ j \in 1..Len(s) :
             /\ startsWith(From(s, j), lit)
             /\ QuotedAtHead(From(s, j + Len(lit))) # <<>> })
  IN  IF k = 0 THEN <<>> ELSE QuotedAtHead(From(s, k + Len(lit)))

\* /key:(\d+)/ : the captured digits in a tuple, or <<>>
MatchDigits(s, key) ==
  LET lit == << key, ":" >>
      k == FirstMatch({ j \in 1..Len(s) :
             /\ startsWith(From(s, j), lit)
             /\ DigitRun(From(s, j + Len(lit))) # <<>> })
  IN  IF k = 0 THEN <<>> ELSE << DigitRun(From(s, k + Len(lit))) >>

\* {(\d+),\s*(\d+)} at the head of t when anySpace, {(\d+), (\d+)} otherwise:
\* the two captured runs of digits, or <<>>
PairAtHead(t, anySpace) ==
  IF t # <<>> /\ Head(t) = "{"
    THEN LET d1 == DigitRun(Tail(t))
             a  == From(t, 2 + Len(d1))
         IN  IF d1 # <<>> /\ a # <<>> /\ Head(a) = ","
               THEN LET b  == IF anySpace THEN trimStart(Tail(a))
                              ELSE IF Len(a) >= 2 /\ a[2] = " " THEN From(a, 3)
                              ELSE <<>>
                        d2 == DigitRun(b)
                        c  == From(b, 1 + Len(d2))
                    IN  IF d2 # <<>> /\ c # <<>> /\ Head(c) = "}"
                          THEN << d1, d2 >> ELSE <<>>
               ELSE <<>>
    ELSE <<>>

\* /key:{(\d+),\s*(\d+)}/ or /key:{(\d+), (\d+)}/ : the two runs, or <<>>
MatchPair(s, key, anySpace) ==
  LET lit == << key, ":" >>
      k == FirstMatch({ j \in 1..Len(s) :
             /\ startsWith(From(s, j), lit)
             /\ PairAtHead(From(s, j + Len(lit)), anySpace) # <<>> })
  IN  IF k = 0 THEN <<>> ELSE PairAtHead(From(s, k + Len(lit)), anySpace)

(***************************************************************************)
(* parseWindowList of manager.ts (lines 172-357).  A window under          *)
(* construction is a Partial<WindowInfo>: a field is <<>> while undefined  *)
(* and << v >> once set.  The records are built first; their ids are put   *)
(* in from the values Date.now() returns, one call for each record that is *)
(* pushed.                                                                 *)
(***************************************************************************)
NoFields == [appName |-> <<>>, pid |-> <<>>, title |-> <<>>, bounds |-> <<>>]

\* lines 233-251 and 279-297: bounds from the position and the size matches
BoundsOf(positionMatch, sizeMatch) ==
  LET fromPosition ==
        IF positionMatch # <<>>
          THEN << mkBounds(parseInt(positionMatch[1]), parseInt(positionMatch[2]), 0, 0) >>
          ELSE <<>>
  IN  IF sizeMatch # <<>>
        THEN LET width == parseInt(sizeMatch[1])  height == parseInt(sizeMatch[2])
             IN  IF fromPosition # <<>>
                   THEN << [fromPosition[1] EXCEPT !.width = width, !.height = height] >>
                   ELSE << mkBounds(0, 0, width, height) >>
        ELSE fromPosition

\* lines 218-251 and 264-297: the fields the five regular expressions extract
ObjectFields(objStr) ==
  LET procNameMatch == MatchQuoted(objStr, "procName")
      procIDMatch   == MatchDigits(objStr, "procID")
      nameMatch     == MatchQuoted(objStr, "name")
  IN  [appName |-> procNameMatch,
       pid     |-> IF procIDMatch # <<>> THEN << parseInt(procIDMatch[1]) >> ELSE <<>>,
       title   |-> nameMatch,
       bounds  |-> BoundsOf(MatchPair(objStr, "position", TRUE),
                            MatchPair(objStr, "size", TRUE))]

\* lines 254 and 300: obj.appName && obj.pid && obj.title && obj.bounds
IsComplete(obj) ==
  /\ obj.appName # <<>> /\ obj.appName[1] # <<>>
  /\ obj.pid # <<>> /\ obj.pid[1] \notin {0, NaN}
  /\ obj.title # <<>> /\ obj.title[1] # <<>>
  /\ obj.bounds # <<>>

\* lines 193-213: the body of the loop for the symbol at i (from 1).  After an
\* object that closes, i += 2 makes the loop pass over the two symbols that
\* follow: the state records the position the loop looks at next.
SplitStep(content, st, i) ==
  LET char == content[i]
  IN  IF i < st.next THEN st
      ELSE IF char = "{"
        THEN [st EXCEPT !.bracketLevel = @ + 1, !.currentObj = Append(@, char)]
      ELSE IF char = "}"
        THEN IF st.bracketLevel - 1 = 0
               THEN [bracketLevel |-> 0, currentObj |-> <<>>, next |-> i + 3,
                     windowObjects |-> Append(st.windowObjects, Append(st.currentObj, char))]
               ELSE [st EXCEPT !.bracketLevel = @ - 1, !.currentObj = Append(@, char)]
      ELSE IF st.bracketLevel > 0 \/ Len(st.currentObj) > 0
        THEN [st EXCEPT !.currentObj = Append(@, char)]
      ELSE st

\* the for loop of lines 193-213 over the positions lo..hi of the text.  The
\* range is halved, and the state after the first half is computed before
\* the second half is entered, so that the evaluation does not nest as deep
\* as the text is long.
RECURSIVE SplitLoop(_, _, _, _)
SplitLoop(content, st, lo, hi) ==
  IF lo > hi THEN st
  ELSE IF lo = hi THEN SplitStep(content, st, lo)
  ELSE LET mid  == (lo + hi) \div 2
           half == SplitLoop(content, st, lo, mid)
       IN  IF half = half THEN SplitLoop(content, half, mid + 1, hi) ELSE half

\* lines 189-214: the objects of a list, split by the depth of the braces
SplitObjects(content) ==
  SplitLoop(content,
            [bracketLevel |-> 0, currentObj |-> <<>>, next |-> 1, windowObjects |-> <<>>],
            1, Len(content)).windowObjects

\* lines 184-260: the list format
ParseList(output) ==
  LET content == SubSeq(output, 2, Len(output) - 1)
      windowObjects == SplitObjects(content)
      objs == [k \in DOMAIN windowObjects |-> ObjectFields(windowObjects[k])]
  IN  SelectSeq(objs, IsComplete)

\* lines 263-305: the format of a single object
ParseSingle(output) ==
  LET obj == ObjectFields(output)
  IN  IF IsComplete(obj) THEN << obj >> ELSE <<>>

\* lines 327-328 and 332-333: the two numbers of "{a, b}"
PairOfLine(valueStr) ==
  LET str   == replace(replace(trim(valueStr), << "{" >>, <<>>), << "}" >>, <<>>)
      parts == split(str, << "," >>)
  IN  << parseInt(trim(parts[1])),
         IF Len(parts) >= 2 THEN parseInt(trim(parts[2])) ELSE NaN >>

\* lines 313-349: one line of the fallback; st is the window under
\* construction, the count of processed lines and the windows pushed so far
ProcessLine(st, rawLine) ==
  LET line == trim(rawLine)
      cw   == st.currentWindow
      rest(key) == replace(line, << key, ":" >>, <<>>)
      seen ==
        IF startsWith(line, << "procName", ":" >>)
          THEN << [cw EXCEPT !.appName = << trim(rest("procName")) >>] >>
        ELSE IF startsWith(line, << "procID", ":" >>)
          THEN << [cw EXCEPT !.pid = << parseInt(trim(rest("procID"))) >>] >>
        ELSE IF startsWith(line, << "name", ":" >>)
          THEN << [cw EXCEPT !.title = << trim(rest("name")) >>] >>
        ELSE IF startsWith(line, << "position", ":" >>)
          THEN LET p == PairOfLine(rest("position"))
               IN  << [cw EXCEPT !.bounds = << mkBounds(p[1], p[2], 0, 0) >>] >>
        ELSE IF startsWith(line, << "size", ":" >>)
          THEN LET p == PairOfLine(rest("size"))
               IN  << [cw EXCEPT !.bounds =
                         IF cw.bounds # <<>>
                           THEN << [cw.bounds[1] EXCEPT !.width = p[1], !.height = p[2]] >>
                           ELSE << mkBounds(0, 0, p[1], p[2]) >>] >>
        ELSE <<>>
      window == IF seen # <<>> THEN seen[1] ELSE cw
      count  == IF seen # <<>> THEN st.processedLines + 1 ELSE st.processedLines
  IN  IF count = 5
        THEN [currentWindow |-> NoFields, processedLines |-> 0,
              windowInfoArray |-> Append(st.windowInfoArray, window)]
        ELSE [currentWindow |-> window, processedLines |-> count,
              windowInfoArray |-> st.windowInfoArray]

\* line 313: lines.forEach, over the lines lo..hi; the range is halved as in
\* SplitLoop
RECURSIVE ProcessRange(_, _, _, _)
ProcessRange(lines, st, lo, hi) ==
  IF lo > hi THEN st
  ELSE IF lo = hi THEN ProcessLine(st, lines[lo])
  ELSE LET mid  == (lo + hi) \div 2
           half == ProcessRange(lines, st, lo, mid)
       IN  IF half = half THEN ProcessRange(lines, half, mid + 1, hi) ELSE half

ProcessLines(st, lines) == ProcessRange(lines, st, 1, Len(lines))

\* lines 309-352: the line-by-line fallback
ParseLines(output) ==
  ProcessLines([currentWindow |-> NoFields, processedLines |-> 0,
                windowInfoArray |-> <<>>],
               split(output, << "\n" >>)).windowInfoArray

\* lines 173-352: the records of an output, before their ids are put in
ParsedFields(output) ==
  IF output = <<>> \/ output = << "{", "}" >> THEN <<>>
  ELSE IF startsWith(output, << "{" >>) /\ includes(output, << "procName", ":" >>)
    THEN IF startsWith(output, << "{", "{" >>)
           THEN ParseList(output) ELSE ParseSingle(output)
  ELSE ParseLines(output)

\* `${pid}-${n}`; an undefined pid reads "undefined"
MakeId(pid, n) ==
  (IF pid = <<>> THEN << "undefined" >>
   ELSE IF pid[1] = NaN THEN << "NaN" >> ELSE NumberToString(pid[1]))
    \o << "-" >> \o NumberToString(n)

\* lines 255, 301 and 345: the k-th record pushed gets the k-th value of
\* Date.now()
WithIds(objs, now) ==
  [k \in DOMAIN objs |->
     [id |-> MakeId(objs[k].pid, now[k]), appName |-> objs[k].appName,
      pid |-> objs[k].pid, title |-> objs[k].title, bounds |-> objs[k].bounds]]

\* lines 172-357.  No step of it throws on a text, so that the catch of lines
\* 353-356 is not reached.
parseWindowList(output, now) == WithIds(ParsedFields(output), now)

(***************************************************************************)
(* parseWindowList of part_004 (lines 175-315).                            *)
(***************************************************************************)
\* lines 283-307: the body of the loop for the symbol at i (from 1)
ExtractStep(content, st, i) ==
  LET char  == content[i]
      quote == char = "\"" /\ (i = 1 \/ content[i - 1] # "\\")
      inQ   == IF quote THEN ~st.inQuotes ELSE st.inQuotes
      count == IF inQ THEN st.braceCount
               ELSE IF char = "{" THEN st.braceCount + 1
               ELSE IF char = "}" THEN st.braceCount - 1
               ELSE st.braceCount
  IN  IF ~inQ /\ char = "," /\ count = 0
        THEN [braceCount |-> count, inQuotes |-> inQ, currentObject |-> <<>>,
              objects |-> IF trim(st.currentObject) # <<>>
                            THEN Append(st.objects, trim(st.currentObject))
                            ELSE st.objects]
        ELSE [braceCount |-> count, inQuotes |-> inQ,
              currentObject |-> Append(st.currentObject, char), objects |-> st.objects]

\* part_004, lines 283-307: the loop over the positions lo..hi, halved as in
\* SplitLoop
RECURSIVE ExtractRange(_, _, _, _)
ExtractRange(content, st, lo, hi) ==
  IF lo > hi THEN st
  ELSE IF lo = hi THEN ExtractStep(content, st, lo)
  ELSE LET mid  == (lo + hi) \div 2
           half == ExtractRange(content, st, lo, mid)
       IN  IF half = half THEN ExtractRange(content, half, mid + 1, hi) ELSE half

ExtractLoop(content) ==
  ExtractRange(content,
               [braceCount |-> 0, inQuotes |-> FALSE, currentObject |-> <<>>, objects |-> <<>>],
               1, Len(content))

\* lines 274-315
extractNestedObjects(output) ==
  LET content == SubSeq(output, 2, Len(output) - 1)
      r == ExtractLoop(content)
  IN  IF trim(r.currentObject) # <<>>
        THEN Append(r.objects, trim(r.currentObject))
        ELSE r.objects

\* lines 191-218: the record of the object at index (from 0), with defaults
NestedRecordGW(windowObj, index) ==
  LET procName == MatchQuoted(windowObj, "procName")
      procID   == MatchDigits(windowObj, "procID")
      name     == MatchQuoted(windowObj, "name")
      position == MatchPair(windowObj, "position", FALSE)
      size     == MatchPair(windowObj, "size", FALSE)
      pid      == IF procID # <<>> THEN parseInt(procID[1]) ELSE 0
  IN  [id      |-> MakeId(<< pid >>, index),
       title   |-> << IF name # <<>> THEN name[1] ELSE << "Untitled" >> >>,
       appName |-> << IF procName # <<>> THEN procName[1] ELSE << "Unknown" >> >>,
       pid     |-> << pid >>,
       bounds  |-> << mkBounds(IF position # <<>> THEN parseInt(position[1]) ELSE 0,
                               IF position # <<>> THEN parseInt(position[2]) ELSE 0,
                               IF size # <<>> THEN parseInt(size[1]) ELSE 0,
                               IF size # <<>> THEN parseInt(size[2]) ELSE 0) >>]

\* lines 228-235: windowData[key], the value of the last line "key: value" of
\* the block, in a tuple, or <<>> when the block has no such line
RECURSIVE WindowData(_, _)
WindowData(windowLines, key) ==
  IF windowLines = <<>> THEN <<>>
  ELSE LET parts == split(windowLines[Len(windowLines)], << ":" >>)
       IN  IF Len(parts) >= 2 /\ trim(parts[1]) = key
             THEN << trim(join(Tail(parts), << ":" >>)) >>
             ELSE WindowData(SubSeq(windowLines, 1, Len(windowLines) - 1), key)

\* lines 239-255: /{(\d+), (\d+)}/ on a value that is set and not empty
PairOfValueGW(value) ==
  IF value = <<>> \/ value[1] = <<>> THEN << 0, 0 >>
  ELSE LET k == FirstMatch({ j \in 1..Len(value[1]) :
                               PairAtHead(From(value[1], j), FALSE) # <<>> })
       IN  IF k = 0 THEN << 0, 0 >>
           ELSE LET m == PairAtHead(From(value[1], k), FALSE)
                IN  << parseInt(m[1]), parseInt(m[2]) >>

\* a || fallback, for a string a that may be undefined or empty
OrElse(value, fallback) ==
  IF value = <<>> \/ value[1] = <<>> THEN fallback ELSE value[1]

\* lines 223-264: the record of the block at index (from 0), with defaults
BlockRecordGW(windowBlock, index) ==
  LET windowLines == split(windowBlock, << "\n" >>)
      procID   == WindowData(windowLines, << "procID" >>)
      position == PairOfValueGW(WindowData(windowLines, << "position" >>))
      size     == PairOfValueGW(WindowData(windowLines, << "size" >>))
  IN  [id      |-> OrElse(procID, << "0" >>) \o << "-" >> \o NumberToString(index),
       title   |-> << OrElse(WindowData(windowLines, << "name" >>), << "Untitled" >>) >>,
       appName |-> << OrElse(WindowData(windowLines, << "procName" >>), << "Unknown" >>) >>,
       pid     |-> << IF procID = <<>> \/ procID[1] = <<>> THEN 0 ELSE parseInt(procID[1]) >>,
       bounds  |-> << mkBounds(position[1], position[2], size[1], size[2]) >>]

\* a parser without the test of line 182: a text without procName: is read
\* as blocks of lines
parseWindowListGW_NoMarkerGuard(output) ==
  IF output = <<>> \/ output = << "{", "}" >> THEN <<>>
  ELSE IF startsWith(output, << "{", "{" >>)
    THEN LET windowObjects == extractNestedObjects(output)
         IN  [k \in DOMAIN windowObjects |-> NestedRecordGW(windowObjects[k], k - 1)]
  ELSE LET blocks == split(trim(output), << "\n", "\n" >>)
       IN  [k \in DOMAIN blocks |-> BlockRecordGW(blocks[k], k - 1)]

\* lines 175-269.  No step of it throws on a text, so that the catch of lines
\* 265-268 is not reached.
parseWindowListGW(output) ==
  IF output = <<>> \/ output = << "{", "}" >> THEN <<>>
  ELSE IF \/ includes(output, << "incomplete", " ", "data" >>)
          \/ ~includes(output, << "procName", ":" >>)
    THEN <<>>
  ELSE IF startsWith(output, << "{", "{" >>)
    THEN LET windowObjects == extractNestedObjects(output)
         IN  [k \in DOMAIN windowObjects |-> NestedRecordGW(windowObjects[k], k - 1)]
  ELSE LET blocks == split(trim(output), << "\n", "\n" >>)
       IN  [k \in DOMAIN blocks |-> BlockRecordGW(blocks[k], k - 1)]

(***************************************************************************)
(* The outputs of the external tool that are parsed: what osascript prints *)
(* for a list of records, in the nested-object-list grammar and in the     *)
(* line-block grammar.  An input keeps the description it was written from *)
(* next to its text; the parsers read the text only.                       *)
(***************************************************************************)
\* most objects in a list
MaxObjects == 2
\* most groups of lines in an output
MaxGroups == 2

\* the values Date.now() may return during one call
Times == {7, 8}

\* what successive calls of Date.now() return: no value lies before an earlier one
Clocks(n) ==
  { now \in [1..n -> Times] : \A i \in 1..n, j \in 1..n : i < j => now[i] <= now[j] }

Keys == << "procName", "procID", "name", "position", "size" >>

\* "{a, b}"
RenderPair(p) ==
  << "{" >> \o NumberToString(p[1]) \o << ",", " " >> \o NumberToString(p[2]) \o << "}" >>

Quoted(s) == << "\"" >> \o s \o << "\"" >>

\* an object of the list: the attributes it has, in the order of the script
\* (manager.ts, line 46), as key:value with ", " between them
RenderObject(o) ==
  LET fields ==
          (IF o.appName # <<>> THEN << << "procName", ":" >> \o Quoted(o.appName[1]) >> ELSE <<>>)
       \o (IF o.pid # <<>> THEN << << "procID", ":" >> \o NumberToString(o.pid[1]) >> ELSE <<>>)
       \o (IF o.title # <<>> THEN << << "name", ":" >> \o Quoted(o.title[1]) >> ELSE <<>>)
       \o (IF o.position # <<>> THEN << << "position", ":" >> \o RenderPair(o.position[1]) >> ELSE <<>>)
       \o (IF o.size # <<>> THEN << << "size", ":" >> \o RenderPair(o.size[1]) >> ELSE <<>>)
  IN  << "{" >> \o join(fields, << ",", " " >>) \o << "}" >>

RenderList(objs) ==
  << "{" >> \o join([k \in DOMAIN objs |-> RenderObject(objs[k])], << ",", " " >>)
    \o << "}" >>

FullObject(appName, pid, title) ==
  [appName |-> << appName >>, pid |-> << pid >>, title |-> << title >>,
   position |-> << << 1, 2 >> >>, size |-> << << 3, 4 >> >>]

\* the objects of the lists: two plain windows; windows whose title holds a
\* comma, a closing brace, an opening brace, an escaped quote, an escaped
\* backslash at its end; a window of process 0; and a window for each
\* attribute that may be missing
NestedObjects ==
  { FullObject(<<"a">>, 1, <<"a">>),
    FullObject(<<"b">>, 12, <<"b">>),
    FullObject(<<"a">>, 3, <<"a", ",", " ", "b">>),
    FullObject(<<"a">>, 4, <<"a", "}">>),
    FullObject(<<"a">>, 5, <<"{", "a">>),
    FullObject(<<"a">>, 6, <<"a", "\\", "\"", "b">>),
    FullObject(<<"a">>, 7, <<"a", "\\", "\\">>),
    FullObject(<<"a">>, 0, <<"a">>) }
  \cup { [FullObject(<<"b">>, 8, <<"b">>) EXCEPT ![f] = <<>>] :
           f \in {"appName", "pid", "title", "position", "size"} }

\* the values of the k-th group of lines: they tell the groups apart, and
\* none of them is zero
GroupValues(k) ==
  [appName |-> << <<"a", "b", "A", "B">>[k] >>, pid |-> k,
   title |-> << <<"b", "A", "B", "a">>[k] >>,
   position |-> << k, k + 1 >>, size |-> << k + 2, k + 3 >>]

RenderLine(key, v) ==
  << key, ":", " " >> \o
    (CASE key = "procName" -> v.appName
       [] key = "procID"   -> NumberToString(v.pid)
       [] key = "name"     -> v.title
       [] key = "position" -> RenderPair(v.position)
       [] key = "size"     -> RenderPair(v.size))

\* a group: its lines, one for each key of the list keys
RenderGroup(keys, k) ==
  join([i \in DOMAIN keys |-> RenderLine(keys[i], GroupValues(k))], << "\n" >>)

\* the groups, with a blank line between two of them
RenderGroups(groups) ==
  join([k \in DOMAIN groups |-> RenderGroup(groups[k], k)], << "\n", "\n" >>)

\* the keys of a group: all five in the order of the script; all five with
\* the size before the position; all five with the name first; the first
\* three; the last two; the first four
KeyLists ==
  { Keys,
    << "procName", "procID", "name", "size", "position" >>,
    << "name", "procName", "procID", "position", "size" >>,
    << "procName", "procID", "name" >>,
    << "position", "size" >>,
    << "procName", "procID", "name", "position" >> }

\* at least one element and at most n
NonEmptySeqsUpTo(S, n) == SeqsUpTo(S, n) \ { <<>> }

\* texts without any of the five keys: the empty text, the token {}, a word,
\* a word in braces, a line with another key, a list of two such objects, a
\* blank line, a number, and five lines that hold no key
DegenerateTexts ==
  { <<>>,
    << "{", "}" >>,
    << "a" >>,
    << "{", "a", "}" >>,
    << "a", ":", " ", "b" >>,
    << "{", "{", "a", "}", ",", " ", "{", "b", "}", "}" >>,
    << "\n", "\n" >>,
    << "1", "2" >>,
    << "a", "\n", "b", "\n", "a", "\n", "b", "\n", "a" >> }

\* s without its last n symbols
DropLast(s, n) == SubSeq(s, 1, Len(s) - n)

\* texts that begin an object and do not end it well, each with the objects
\* that stand whole before the point where it goes wrong: the text of the
\* test (part_000, line 107); the same without its last words; an object
\* whose title is not closed; an object cut before its last brace; an object
\* cut inside its size; a list cut inside the title of its second object
MalformedInputs ==
  LET a == FullObject(<<"a">>, 1, <<"a">>)
      b == FullObject(<<"b">>, 12, <<"b">>)
  IN  { [whole |-> <<>>,
         text  |-> << "{", "procName", ":", "\"", "a", ",", " ", "procID", ":", "1",
                      ",", " ", "incomplete", " ", "data", "}" >>],
        [whole |-> <<>>,
         text  |-> << "{", "procName", ":", "\"", "a", ",", " ", "procID", ":", "1", "}" >>],
        [whole |-> <<>>,
         text  |-> << "{", "procName", ":", "\"", "a", "\"", ",", " ", "procID", ":", "1",
                      ",", " ", "name", ":", "\"", "a", ",", " " >>
                     \o << "position", ":" >> \o RenderPair(<< 1, 2 >>) \o << ",", " " >>
                     \o << "size", ":" >> \o RenderPair(<< 3, 4 >>) \o << "}" >>],
        [whole |-> <<>>, text |-> DropLast(RenderObject(a), 1)],
        [whole |-> <<>>, text |-> DropLast(RenderObject(a), 3)],
        [whole |-> << a >>, text |-> DropLast(RenderList(<< a, b >>), 23)] }

\* the lists of objects
ListArgs ==
  { [grammar |-> "list", objects |-> objs, groups |-> <<>>, text |-> RenderList(objs)] :
      objs \in NonEmptySeqsUpTo(NestedObjects, MaxObjects) }

ParseArgs ==
  ListArgs
  \cup
  { [grammar |-> "lines", objects |-> <<>>, groups |-> gs, text |-> RenderGroups(gs)] :
      gs \in NonEmptySeqsUpTo(KeyLists, MaxGroups) }
  \cup
  { [grammar |-> "degenerate", objects |-> <<>>, groups |-> <<>>, text |-> t] :
      t \in DegenerateTexts }
  \cup
  { [grammar |-> "malformed", objects |-> m.whole, groups |-> <<>>, text |-> m.text] :
      m \in MalformedInputs }

InitParse ==
  /\ isRunning = FALSE
  /\ pollInterval = DefaultPollInterval
  /\ lastWindowState = <<>>
  /\ intervalId = 0
  /\ timers = {}
  /\ listeners = <<>>
  /\ starts = 0
  /\ ticks = <<>>
  /\ emitted = <<>>
  /\ lastOp = Op("init", <<>>, FALSE, FALSE, FALSE)
  /\ afterStop = "no"
  /\ args \in ParseArgs
  /\ returned = <<>>

\* manager.ts: parseWindowList(text), with the clock as it happens to run
ParseWindowList ==
  \E now \in Clocks(Len(ParsedFields(args.text))) :
    Return("parseWindowList", Resolved(parseWindowList(args.text, now)), <<>>)

\* part_004: parseWindowList(text)
ParseWindowListGW ==
  Return("parseWindowListGW", Resolved(parseWindowListGW(args.text)), <<>>)

NextParse == ParseWindowList \/ ParseWindowListGW

SpecParse == InitParse /\ [][NextParse]_vars

(***************************************************************************)
(* The ids over time.  listAllWindows of manager.ts runs the script and    *)
(* parses what it prints (lines 34-62), so every enumeration makes its ids *)
(* anew from Date.now().  Below, a monitor polls, or a consumer looks a    *)
(* window up by its id, while the script keeps printing the same text, one *)
(* of the lists of ListArgs.  As the text stays the same, what the parser  *)
(* makes of it before the ids are put in is worked out once and kept next  *)
(* to the text.  The time of an enumeration is read off the ids it made.   *)
(***************************************************************************)
\* line 256: obj as WindowInfo, for a record that has all its fields
asWindowInfo(r) ==
  [id |-> r.id, title |-> r.title[1], appName |-> r.appName[1], pid |-> r.pid[1],
   bounds |-> r.bounds[1]]

\* what the enumeration answers when the parser has made the records fields
\* of the text and the clock shows now[k] as the k-th of them is pushed
Listed(fields, now) ==
  LET records == WithIds(fields, now)
  IN  [ok |-> TRUE, windows |-> [k \in DOMAIN records |-> asWindowInfo(records[k])]]

\* the time in an id `${pid}-${Date.now()}`
TimeOf(id) == parseInt(From(id, indexOf(id, << "-" >>) + 1))

\* the times at which Date.now() may be read once the windows ws have their
\* ids: not before the times in these ids, and after them when a poll
\* interval has passed in between
Since(ws, intervalPassed) ==
  { t \in Times : \A i \in DOMAIN ws :
      IF intervalPassed THEN t > TimeOf(ws[i].id) ELSE t >= TimeOf(ws[i].id) }

\* the clock during the enumeration that follows
ClocksSince(fields, ws, intervalPassed) ==
  { now \in Clocks(Len(fields)) :
      \A k \in DOMAIN now : now[k] \in Since(ws, intervalPassed) }

InitIds ==
  /\ isRunning = FALSE
  /\ pollInterval = DefaultPollInterval
  /\ lastWindowState = <<>>
  /\ intervalId = 0
  /\ timers = {}
  /\ listeners = <<>>
  /\ starts = 0
  /\ ticks = <<>>
  /\ emitted = <<>>
  /\ lastOp = Op("init", <<>>, FALSE, FALSE, FALSE)
  /\ afterStop = "no"
  /\ \E a \in ListArgs : args = [text |-> a.text, fields |-> ParsedFields(a.text)]
  /\ returned = <<>>

\* a consumer calls listAllWindows(); the call is kept with what it returned
ListWindows ==
  /\ returned = <<>>
  /\ \E now \in ClocksSince(args.fields, <<>>, FALSE) :
       returned' = [op |-> "listAllWindows", asked |-> <<>>,
                    result |-> listAllWindowsTry(Listed(args.fields, now))]
  /\ UNCHANGED << progVars, emitted, lastOp, afterStop, args >>

\* later the consumer calls getWindowById with the id of the k-th window it
\* was given (lines 103-106): listAllWindows() runs again
LookUp(k) ==
  /\ returned # <<>>
  /\ returned.op = "listAllWindows"
  /\ k \in DOMAIN returned.result.value
  /\ \E now \in ClocksSince(args.fields, returned.result.value, FALSE) :
       returned' = [op |-> "getWindowById", asked |-> << returned.result.value[k] >>,
                    result |-> getWindowById(Listed(args.fields, now),
                                             returned.result.value[k].id)]
  /\ UNCHANGED << progVars, emitted, lastOp, afterStop, args >>

\* a monitor that is started once and polls, no execution overlapping
\* another
NextPoll ==
  \/ StartCall
  \/ \E now \in ClocksSince(args.fields, <<>>, FALSE) : StartResume(Listed(args.fields, now))
  \/ \E t \in timers : ticks = <<>> /\ TimerFires(t)
  \/ \E i \in 1..MaxTicks :
       /\ i \in DOMAIN ticks
       /\ \E now \in ClocksSince(args.fields, lastWindowState, TRUE) :
            TickDiff(i, Listed(args.fields, now))
  \/ \E i \in 1..MaxTicks :
       /\ i \in DOMAIN ticks
       /\ \E now \in ClocksSince(args.fields, ticks[i].currentWindowMap, FALSE) :
            TickFocus(i, Listed(args.fields, now))

SpecPoll == InitIds /\ [][NextPoll]_vars

\* a consumer that lists the windows and looks one of them up
NextLookUp == ListWindows \/ \E k \in 1..MaxObjects : LookUp(k)

SpecLookUp == InitIds /\ [][NextLookUp]_vars

(***************************************************************************)
(* Properties of the monitor.                                              *)
(***************************************************************************)
EventsOf(type) == { k \in DOMAIN emitted : emitted[k].type = type }

\* the last step was the comparison of a tick and it ran to its end
DiffCompleted == lastOp.op = "diff" /\ ~lastOp.threw

\* C1: a tick on which the external enumeration tool fails is skipped: it
\* emits no event and it leaves the retained snapshot as it was.
C1_FailedTickIsSkipped ==
  [][ /\ (lastOp'.op = "diff" /\ lastOp'.failed) => emitted' = <<>>
      /\ \A i \in DOMAIN ticks :
           (lastOp'.op = "focus" /\ ticks[i].failed /\ ticks' = RemoveAt(ticks, i))
             => lastWindowState' = lastWindowState ]_vars

\* C2: no execution of the per-tick routine begins while another one has its
\* enumeration and has not yet replaced the retained snapshot.
C2_TicksMutuallyExclusive ==
  [][ Len(ticks') > Len(ticks) => \A i \in DOMAIN ticks : ticks[i].phase # "focus" ]_vars

\* C3: once stop() has returned and the ticks that were in progress have
\* completed, no tick begins and no event is emitted until start() is called.
C3_QuietAfterStop ==
  [][ afterStop = "quiet" => (Len(ticks') <= Len(ticks) /\ emitted' = <<>>) ]_vars

\* C4: on a tick that runs to its end, a created event is emitted for a record
\* of the new snapshot exactly when its id was not in the previous snapshot,
\* once per such record; a record whose id was present and whose bounds are
\* unchanged produces no event at all.
C4_CreatedIffNew ==
  DiffCompleted =>
    LET ws == lastOp.windows
        prev == lastWindowState
    IN  /\ \A i \in DOMAIN ws :
             /\ (\E k \in EventsOf("created") : emitted[k].window = ws[i])
                  <=> ~MapHas(prev, ws[i].id)
             /\ (MapHas(prev, ws[i].id) /\ ws[i].bounds = MapGet(prev, ws[i].id).bounds)
                  => \A k \in DOMAIN emitted : emitted[k].window # ws[i]
        /\ Cardinality(EventsOf("created"))
             = Cardinality({ i \in DOMAIN ws : ~MapHas(prev, ws[i].id) })

\* baseline {A}, new snapshot {A unchanged, B}: exactly one event, created for B
C4_Witness ==
  /\ DiffCompleted
  /\ lastWindowState = << mkWindow("A", 1, mkBounds(0, 0, 100, 100)) >>
  /\ lastOp.windows = << mkWindow("A", 1, mkBounds(0, 0, 100, 100)),
                         mkWindow("B", 2, mkBounds(0, 0, 100, 100)) >>
  /\ Len(emitted) = 1
  /\ emitted[1].type = "created"
  /\ emitted[1].window.id = "B"

\* C5: on a tick that runs to its end, for each record of the new snapshot
\* whose id was in the previous snapshot, a moved event is emitted exactly
\* when x or y differs and a resized event exactly when width or height
\* differs, one of each at most per record.
C5_MovedAndResized ==
  DiffCompleted =>
    LET ws == lastOp.windows
        prev == lastWindowState
        known == { i \in DOMAIN ws : MapHas(prev, ws[i].id) }
        xyDiffers(i) ==
          \/ ws[i].bounds.x # MapGet(prev, ws[i].id).bounds.x
          \/ ws[i].bounds.y # MapGet(prev, ws[i].id).bounds.y
        whDiffers(i) ==
          \/ ws[i].bounds.width # MapGet(prev, ws[i].id).bounds.width
          \/ ws[i].bounds.height # MapGet(prev, ws[i].id).bounds.height
    IN  /\ \A i \in known :
             /\ (\E k \in EventsOf("moved") : emitted[k].window = ws[i]) <=> xyDiffers(i)
             /\ (\E k \in EventsOf("resized") : emitted[k].window = ws[i]) <=> whDiffers(i)
        /\ Cardinality(EventsOf("moved")) = Cardinality({ i \in known : xyDiffers(i) })
        /\ Cardinality(EventsOf("resized")) = Cardinality({ i \in known : whDiffers(i) })

\* A moved by (50, 0): one moved event and no resized event
C5_Witness ==
  /\ DiffCompleted
  /\ lastWindowState = << mkWindow("A", 1, mkBounds(0, 0, 100, 100)) >>
  /\ lastOp.windows = << mkWindow("A", 1, mkBounds(50, 0, 100, 100)) >>
  /\ Len(emitted) = 1
  /\ emitted[1].type = "moved"

\* C6: on a tick that runs to its end, each id of the previous snapshot that
\* is absent from the new snapshot gets exactly one closed event, which
\* carries the retained record; an id of the new snapshot gets none.
C6_ClosedForMissing ==
  DiffCompleted =>
    LET ws == lastOp.windows
        prev == lastWindowState
    IN  /\ \A j \in DOMAIN prev :
             Cardinality({ k \in EventsOf("closed") : emitted[k].window.id = prev[j].id })
               = IF \E i \in DOMAIN ws : ws[i].id = prev[j].id THEN 0 ELSE 1
        /\ \A k \in EventsOf("closed") :
             \E j \in DOMAIN prev : emitted[k].window = prev[j]

\* A and B retained, B alone reported: one closed event, for A
C6_Witness ==
  /\ DiffCompleted
  /\ Len(lastWindowState) = 2
  /\ Len(lastOp.windows) = 1
  /\ lastOp.windows[1].id = "B"
  /\ Len(emitted) = 1
  /\ emitted[1].type = "closed"
  /\ emitted[1].window.id = "A"

\* C7: the monitor starts stopped; start() sets it running and, when its
\* enumeration resolves, retains every enumerated window (and nothing else
\* when nothing was retained before) without emitting an event.
C7_StartCapturesBaseline ==
  [][ /\ lastOp.op = "init" => ~isRunning
      /\ lastOp'.op = "start" => (isRunning' /\ emitted' = <<>>)
      /\ lastOp'.op = "startResume" =>
           LET ws == lastOp'.windows
           IN  /\ emitted' = <<>>
               /\ \A i \in DOMAIN ws :
                    /\ MapHas(lastWindowState', ws[i].id)
                    /\ (\A j \in DOMAIN ws : j > i => ws[j].id # ws[i].id)
                         => MapGet(lastWindowState', ws[i].id) = ws[i]
               /\ lastWindowState = <<>> =>
                    \A j \in DOMAIN lastWindowState' :
                      \E i \in DOMAIN ws : ws[i].id = lastWindowState'[j].id ]_vars

\* a start() has retained a baseline of two windows
C7_Witness ==
  /\ lastOp.op = "startResume"
  /\ ~lastOp.failed
  /\ Len(lastOp.windows) = 2
  /\ Len(lastWindowState) = 2
  /\ isRunning
  /\ emitted = <<>>

\* C8: stop() on a stopped monitor and start() on a running monitor change
\* nothing: no baseline is captured, the retained snapshot and the timers
\* stay as they are.
C8_StartStopIdempotent ==
  [][ /\ (lastOp'.op = "stop" /\ ~isRunning) => UNCHANGED progVars
      /\ (lastOp'.op = "start" /\ isRunning) => UNCHANGED progVars ]_vars

\* stop() was called on a stopped monitor that still has a timer
C8_Witness ==
  /\ lastOp.op = "stop"
  /\ lastOp.early
  /\ timers # {}

\* C9: every event of a tick reaches every listener, and a listener that
\* throws does not keep the remaining events of the tick from being emitted.
C9_EveryEventToEveryListener ==
  lastOp.op \in {"diff", "focus"} =>
    /\ \A k \in DOMAIN emitted : emitted[k].receivers = Len(listeners)
    /\ lastOp.op = "diff" =>
         Len(emitted) = Len(ChangeEvents(lastWindowState, lastOp.windows))

\* C10: a tick emits exactly one focused event, carrying the window that
\* getActiveWindow() returned, whenever it returned one, and none otherwise.
C10_FocusedEveryTick ==
  /\ lastOp.op = "focus" =>
       IF lastOp.windows # <<>>
         THEN /\ Len(emitted) = 1
              /\ emitted[1].type = "focused"
              /\ emitted[1].window = lastOp.windows[1]
         ELSE emitted = <<>>
  /\ lastOp.op # "focus" => EventsOf("focused") = {}

\* a tick has emitted a focused event
C10_Witness ==
  /\ lastOp.op = "focus"
  /\ lastOp.windows # <<>>
  /\ EventsOf("focused") # {}

\* C11 as stated: setPollInterval(ms) on a running monitor leaves a polling
\* timer with the new interval under the monitor's handle.
C11_RunningGetsNewTimer ==
  [][ (lastOp'.op = "setPollInterval" /\ isRunning) =>
        \E t \in timers' : t.id = intervalId' /\ t.ms = pollInterval' ]_vars

\* C11, amended: setPollInterval(ms) never touches the retained snapshot or
\* the running state.  On a running monitor that holds a timer handle it
\* clears that handle and arms one timer with the new interval in its place;
\* on a stopped monitor, and on a running monitor whose start() has not yet
\* recorded a handle, it only records the interval and creates no timer.
C11_SetPollIntervalReplacesTimer ==
  [][ lastOp'.op = "setPollInterval" =>
        /\ lastWindowState' = lastWindowState
        /\ isRunning' = isRunning
        /\ pollInterval' \in PollIntervals
        /\ IF isRunning /\ intervalId # 0
             THEN /\ timers' = { t \in timers : t.id # intervalId }
                                 \cup { [id |-> intervalId', ms |-> pollInterval'] }
                  /\ Cardinality(timers') =
                       Cardinality({ t \in timers : t.id # intervalId }) + 1
             ELSE /\ timers' = timers
                  /\ intervalId' = intervalId ]_vars

\* setPollInterval(500) has replaced the timer of a running monitor that
\* retains a snapshot
C11_Witness ==
  /\ lastOp.op = "setPollInterval"
  /\ isRunning
  /\ lastWindowState # <<>>
  /\ timers = { [id |-> intervalId, ms |-> 500] }
  /\ pollInterval = 500

(***************************************************************************)
(* Properties of the matcher and of the queries.                           *)
(***************************************************************************)
\* the call was a call of the matcher, in either version, and has returned
MatcherReturned ==
  returned # <<>> /\ returned.op \in {"findMatchingWindow", "findMatchingWindowGW"}

\* the candidates the matcher scored
Candidates == args.out.windows

\* C12: the score of every candidate is the sum of +100 for an id that is set
\* and equal, +50 for a pid that is set, whatever its value, and equal, +25 and
\* +20 for an appName and a title that are set and contained in the candidate's
\* without regard to case, and the two proximity contributions.
C12_ScoreIsSumOfContributions ==
  MatcherReturned =>
    \A i \in DOMAIN Candidates :
      LET id == args.identifier  w == Candidates[i]
      IN  returned.scores[i] =
              (IF id.id # <<>> /\ id.id[1] = w.id THEN 100 ELSE 0)
            + (IF id.pid # <<>> /\ id.pid[1] >= 0 /\ id.pid[1] = w.pid THEN 50 ELSE 0)
            + (IF id.appName # <<>>
                  /\ includes(toLowerCase(w.appName), toLowerCase(id.appName[1]))
                 THEN 25 ELSE 0)
            + (IF id.title # <<>>
                  /\ includes(toLowerCase(w.title), toLowerCase(id.title[1]))
                 THEN 20 ELSE 0)
            + PositionScore(id, w) + SizeScore(id, w)

\* the identifier without one of its fields
Without(identifier, field) == [identifier EXCEPT ![field] = <<>>]

\* the most a field can contribute
MaxContribution ==
  [id |-> 100, pid |-> 50, appName |-> 25, title |-> 20, position |-> 10, size |-> 10]

\* C13: the matcher returns a candidate only if its score is above zero and no
\* candidate scores higher; it returns none when every candidate scores zero,
\* as for an identifier without fields and for an empty list of candidates.  A
\* field that is absent takes nothing from a score: without a field, a
\* candidate loses at most what that field contributed.
C13_BestPositiveOrNone ==
  MatcherReturned =>
    /\ returned.value # <<>> =>
         \E i \in DOMAIN Candidates :
           /\ returned.value[1] = Candidates[i]
           /\ returned.scores[i] > 0
           /\ \A j \in DOMAIN Candidates : returned.scores[j] <= returned.scores[i]
    /\ (\A i \in DOMAIN Candidates : returned.scores[i] = 0) => returned.value = <<>>
    /\ (\A f \in DOMAIN MaxContribution : args.identifier[f] = <<>>) =>
         /\ \A i \in DOMAIN Candidates : returned.scores[i] = 0
         /\ returned.value = <<>>
    /\ Candidates = <<>> => returned.value = <<>>
    /\ \A i \in DOMAIN Candidates, f \in DOMAIN MaxContribution :
         LET less == Score(Without(args.identifier, f), Candidates[i])
         IN  /\ less >= 0
             /\ less \in { returned.scores[i], returned.scores[i] - MaxContribution[f] }
             /\ args.identifier[f] = <<>> => less = returned.scores[i]

\* the matcher preferred the second of two candidates, which scores higher
C13_Witness ==
  /\ returned # <<>>
  /\ returned.op = "findMatchingWindow"
  /\ Len(Candidates) = 2
  /\ returned.scores[1] > 0
  /\ returned.scores[2] > returned.scores[1]
  /\ returned.value = << Candidates[2] >>

\* the first candidate with the highest score
FirstMax(scores) ==
  CHOOSE i \in DOMAIN scores :
    /\ \A j \in DOMAIN scores : scores[j] <= scores[i]
    /\ \A j \in DOMAIN scores : scores[j] = scores[i] => i <= j

\* C14: among the candidates that share the highest score, the matcher returns
\* the one that comes first in the list as enumerated.
C14_FirstOfTheBestWins ==
  (MatcherReturned /\ returned.value # <<>>) =>
    returned.value[1] = Candidates[FirstMax(returned.scores)]

\* two different candidates tie and the first of them is returned
C14_Witness ==
  /\ returned # <<>>
  /\ returned.op = "findMatchingWindow"
  /\ Len(Candidates) = 2
  /\ Candidates[1] # Candidates[2]
  /\ returned.scores[1] = returned.scores[2]
  /\ returned.value = << Candidates[1] >>

\* a difference of at most 10 on both axes
WithinTen(a, b, c, d) == abs(a - b) <= 10 /\ abs(c - d) <= 10

\* C15: what the position adds to a score is 10 exactly when x and y both
\* differ by at most 10 from the identifier's, a difference of exactly 10
\* included, and 0 otherwise; the same for the size with width and height.
C15_ToleranceIncludesTen ==
  MatcherReturned =>
    \A i \in DOMAIN Candidates :
      LET id == args.identifier  b == Candidates[i].bounds
      IN  /\ id.position # <<>> =>
               returned.scores[i] - Score(Without(id, "position"), Candidates[i])
                 = IF WithinTen(b.x, id.position[1].x, b.y, id.position[1].y)
                     THEN 10 ELSE 0
          /\ id.size # <<>> =>
               returned.scores[i] - Score(Without(id, "size"), Candidates[i])
                 = IF WithinTen(b.width, id.size[1].width, b.height, id.size[1].height)
                     THEN 10 ELSE 0

\* C16: no query throws; when the external tool fails, the queries that
\* return a list return the empty list and the others return none.
C16_QueriesAbsorbFailures ==
  returned # <<>> =>
    /\ ~returned.threw
    /\ ~args.out.ok => returned.value = <<>>

\* a query that has no try block of its own has returned the empty list
\* although the tool failed
C16_Witness ==
  /\ returned # <<>>
  /\ returned.op = "getWindowsByApplication"
  /\ ~args.out.ok
  /\ ~returned.threw
  /\ returned.value = <<>>

(***************************************************************************)
(* Properties of the parser.                                               *)
(***************************************************************************)
\* the call was a call of parseWindowList, in either version, and has returned
ParserReturned ==
  returned # <<>> /\ returned.op \in {"parseWindowList", "parseWindowListGW"}

\* the attributes of a record, without its id
Attributes(r) ==
  [appName |-> r.appName, pid |-> r.pid, title |-> r.title, bounds |-> r.bounds]

\* the records that were returned, without their ids
ReturnedAttributes == [k \in DOMAIN returned.value |-> Attributes(returned.value[k])]

\* the record that the five lines of the k-th group describe
GroupRecord(k) ==
  LET v == GroupValues(k)
  IN  [appName |-> << v.appName >>, pid |-> << v.pid >>, title |-> << v.title >>,
       bounds |-> << mkBounds(v.position[1], v.position[2], v.size[1], v.size[2]) >>]

\* the groups of the input in which all five keys occur, by their position
CompleteGroups ==
  SelectSeq([k \in DOMAIN args.groups |-> k],
            LAMBDA k : { args.groups[k][i] : i \in DOMAIN args.groups[k] }
                         = { Keys[i] : i \in DOMAIN Keys })

\* C17: in the line-block grammar the records returned are those of the
\* groups that hold all five keys, one for each in order, every attribute
\* with the value its own group gives: a group with fewer keys yields no
\* record, and no record has an attribute that is missing, zero or taken
\* from another group.
C17_OnlyCompleteGroupsEmitted ==
  (ParserReturned /\ args.grammar = "lines") =>
    ReturnedAttributes = [j \in DOMAIN CompleteGroups |-> GroupRecord(CompleteGroups[j])]

\* s begins t
IsPrefix(s, t) == Len(s) <= Len(t) /\ SubSeq(t, 1, Len(s)) = s

\* an object with all five attributes and a pid above zero
IsWhole(o) ==
  /\ \A f \in {"appName", "pid", "title", "position", "size"} : o[f] # <<>>
  /\ o.pid[1] > 0

\* C18: for a list of objects that have all their attributes, whatever commas,
\* braces, escaped quotes and backslashes their quoted titles hold, as many
\* records are returned as the list has objects, and the k-th record has the
\* appName, the pid, the position and the size of the k-th object and a title
\* that its title begins with.
C18_SplitRespectsQuotesAndBraces ==
  (ParserReturned /\ args.grammar = "list"
     /\ \A k \in DOMAIN args.objects : IsWhole(args.objects[k])) =>
    /\ Len(returned.value) = Len(args.objects)
    /\ \A k \in DOMAIN args.objects :
         LET o == args.objects[k]  r == returned.value[k]
         IN  /\ r.appName = o.appName
             /\ r.pid = o.pid
             /\ r.bounds = << mkBounds(o.position[1][1], o.position[1][2],
                                       o.size[1][1], o.size[1][2]) >>
             /\ r.title # <<>> /\ r.title[1] # <<>> /\ IsPrefix(r.title[1], o.title[1])

\* the record of an object, a default standing for each attribute it lacks
Defaulted(o) ==
  [appName |-> IF o.appName # <<>> THEN o.appName ELSE << << "Unknown" >> >>,
   pid     |-> IF o.pid # <<>> THEN o.pid ELSE << 0 >>,
   title   |-> IF o.title # <<>> THEN o.title ELSE << << "Untitled" >> >>,
   bounds  |-> << mkBounds(IF o.position # <<>> THEN o.position[1][1] ELSE 0,
                           IF o.position # <<>> THEN o.position[1][2] ELSE 0,
                           IF o.size # <<>> THEN o.size[1][1] ELSE 0,
                           IF o.size # <<>> THEN o.size[1][2] ELSE 0) >>]

\* an object that lacks one of the five attributes
LacksAttribute(o) ==
  \E f \in {"appName", "pid", "title", "position", "size"} : o[f] = <<>>

\* C19: in the nested-object-list grammar, every object that lacks an
\* attribute is returned as a record with the default in its place.
C19_IncompleteObjectsGetDefaults ==
  (ParserReturned /\ args.grammar = "list") =>
    \A k \in DOMAIN args.objects :
      LacksAttribute(args.objects[k]) =>
        \E j \in DOMAIN returned.value :
          Attributes(returned.value[j]) = Defaulted(args.objects[k])

\* C20: the records returned by one call have ids that are not empty and
\* differ from each other.
C20_IdsDistinctWithinParse ==
  ParserReturned =>
    \A i \in DOMAIN returned.value :
      /\ returned.value[i].id # <<>>
      /\ \A j \in DOMAIN returned.value :
           i # j => returned.value[i].id # returned.value[j].id

\* the groups of the input are all written with the five keys in the order of
\* the script
InScriptOrder == \A k \in DOMAIN args.groups : args.groups[k] = Keys

\* C21: for an input that describes N windows with all their attributes (N
\* groups of the five key lines in the order of the script, or a list of N
\* objects with the five attributes) N records are returned, the k-th with
\* the appName, the pid, the title and the bounds written for the k-th window.
C21_WellFormedInputParsedInOrder ==
  /\ (ParserReturned /\ args.grammar = "lines" /\ InScriptOrder) =>
       ReturnedAttributes = [k \in DOMAIN args.groups |-> GroupRecord(k)]
  /\ (ParserReturned /\ args.grammar = "list"
        /\ \A k \in DOMAIN args.objects : ~LacksAttribute(args.objects[k])) =>
       ReturnedAttributes = [k \in DOMAIN args.objects |-> Defaulted(args.objects[k])]

\* C22: the empty text, the token {} and a text that holds none of the five
\* keys yield no record.
C22_DegenerateInputYieldsNothing ==
  (ParserReturned /\ args.grammar = "degenerate") => returned.value = <<>>

C22_Witness ==
  /\ ParserReturned
  /\ args.grammar = "degenerate"
  /\ Len(split(args.text, << "\n" >>)) = 5
  /\ returned.op = "parseWindowListGW"
  /\ returned.value = <<>>

\* C23: of a text that begins an object and is cut short, or in which a
\* quote or a brace is not closed, no record is made: the records returned
\* are records of the objects that stand whole before the point where the
\* text goes wrong, in their order.
C23_NoRecordFromMalformedText ==
  (ParserReturned /\ args.grammar = "malformed") =>
    IsPrefix(ReturnedAttributes, [k \in DOMAIN args.objects |-> Defaulted(args.objects[k])])

(***************************************************************************)
(* Properties of the monitor under restarts and overlapping ticks.         *)
(***************************************************************************)
\* C25: at any time at most one interval timer of the monitor is active, and
\* every active timer is the one whose handle the monitor holds, so that
\* stop() can clear it.
C25_OneTimerThatStopCanClear ==
  /\ Cardinality(timers) <= 1
  /\ \A t \in timers : t.id = intervalId

\* C26: when start() has taken its baseline, the retained snapshot holds the
\* windows of that enumeration and no other: nothing retained before a
\* stop() is left in it.
C26_RestartReplacesSnapshot ==
  (lastOp.op = "startResume" /\ ~lastOp.failed) =>
    lastWindowState = MapSetAll(<<>>, lastOp.windows)

\* C28: an event that the comparison of one tick has emitted is not emitted
\* again by the comparison of the tick that follows it, also when the two
\* ticks overlap.
C28_NoChangeReportedTwice ==
  [][ (lastOp.op = "diff" /\ ~lastOp.failed /\ lastOp'.op = "diff" /\ ~lastOp'.failed) =>
        \A j \in DOMAIN emitted, k \in DOMAIN emitted' : emitted'[k] # emitted[j] ]_vars

(***************************************************************************)
(* Properties of the parser and of the ids it makes.                       *)
(***************************************************************************)
\* C29: in the line-block grammar, when every group holds the five keys, in
\* whatever order its lines are written, the k-th record has the appName,
\* the pid, the title and the bounds of the k-th group.
C29_KeyOrderDoesNotMatter ==
  (ParserReturned /\ args.grammar = "lines"
     /\ Len(CompleteGroups) = Len(args.groups)) =>
    ReturnedAttributes = [k \in DOMAIN args.groups |-> GroupRecord(k)]

\* C27: while the script prints the same list of windows, the comparison
\* of a tick emits no event.
C27_UnchangedWindowsEmitNothing ==
  lastOp.op = "diff" => emitted = <<>>

\* C30: while the script prints the same list of windows, getWindowById
\* with the id of a window that listAllWindows returned returns a window,
\* with the pid, the title and the bounds of that window.
C30_IdResolvesToItsWindow ==
  (returned # <<>> /\ returned.op = "getWindowById" /\ returned.asked # <<>>) =>
    /\ ~returned.result.threw
    /\ returned.result.value # <<>>
    /\ LET w == returned.asked[1]  found == returned.result.value[1]
       IN  found.pid = w.pid /\ found.title = w.title /\ found.bounds = w.bounds

====
